---- MODULE Spec2Model ----
(***************************************************************************)
(* One top-level execution of an angreal task of the Arawn repository      *)
(* (.angreal/task_build.py, task_check.py, task_test.py, task_docs.py).    *)
(*                                                                         *)
(* A behaviour is one command execution: Init draws the command, its       *)
(* flags and the directory tree; the actions are the statements of the     *)
(* task function.  A subprocess.run(..., check=True) call is two steps     *)
(* (the child starts, the child exits), so that the directory tree may     *)
(* change while a child is running.  `trace` is the history of what the    *)
(* execution did, in order.                                                *)
(***************************************************************************)
EXTENDS Integers, Sequences, FiniteSets

VARIABLES
    fs,          \* the directory tree below os.getcwd()
    cmd,         \* the task function that was dispatched
    release,     \* --release          (build workspace / build runtimes)
    check_only,  \* --check-only       (check all / fmt / clippy)
    port,        \* --port             (docs serve)
    pc,          \* "call", "checked", "body", "return", "done"
    todo,        \* statements of the with-block still to run, head first
    entries,     \* sorted(os.listdir(runtimes_dir)) of the running loop
    guard,       \* TRUE while the Flox(".") context is entered
    child,       \* TRUE while a subprocess.run child is running
    exc,         \* "none", or the exception that is propagating
    exit,        \* "running", "zero", "nonzero": the exit status of the task
    trace,       \* history: sequence of events
    fsStable,    \* history: the tree has not changed since the task began
    discovered,  \* history: the listed entries that held Cargo.toml when listed
    fsChanges    \* history: how many times the tree has changed since the task began

vars == << fs, cmd, release, check_only, port, pc, todo, entries, guard,
           child, exc, exit, trace, fsStable, discovered, fsChanges >>

----------------------------------------------------------------------------
(* Bounds *)

NumNames == 3

\* tree changes followed during one command execution
MaxFsChanges == 1

----------------------------------------------------------------------------
(* Names of the children of runtimes/, and Python's order on str *)

NamePool == << "gamma", "alpha", "beta", "delta", "al" >>

Names == { NamePool[i] : i \in 1..(IF NumNames < Len(NamePool) THEN NumNames ELSE Len(NamePool)) }

\* the code points of a name (Python compares str code point by code point)
Code(s) ==
    CASE s = "gamma" -> << 103, 97, 109, 109, 97 >>
      [] s = "alpha" -> << 97, 108, 112, 104, 97 >>
      [] s = "beta"  -> << 98, 101, 116, 97 >>
      [] s = "delta" -> << 100, 101, 108, 116, 97 >>
      [] s = "al"    -> << 97, 108 >>

RECURSIVE LexLess(_, _)
LexLess(s, t) ==
    IF s = << >> THEN t # << >>
    ELSE IF t = << >> THEN FALSE
    ELSE IF s[1] # t[1] THEN s[1] < t[1]
    ELSE LexLess(Tail(s), Tail(t))

StrLess(a, b) == LexLess(Code(a), Code(b))

RECURSIVE Insert(_, _)
Insert(x, s) ==
    IF s = << >> THEN << x >>
    ELSE IF StrLess(x, s[1]) THEN << x >> \o s
    ELSE << s[1] >> \o Insert(x, Tail(s))

RECURSIVE InsertionSort(_)
InsertionSort(s) ==
    IF s = << >> THEN << >> ELSE Insert(s[1], InsertionSort(Tail(s)))

\* a plausible slip: the listing is used in the order the OS returned it
Unsorted(s) == s

\* sorted(...) of a list of str
Sorted(s) == InsertionSort(s)

----------------------------------------------------------------------------
(* The directory tree and the os / os.path calls the tasks make *)

Kinds == { "none", "file", "dir", "crate" }   \* crate: a directory holding Cargo.toml

NoChildren == [ n \in Names |-> "none" ]

FsStates ==
    { [ runtimes |-> "dir", kind |-> k, book |-> b ] : k \in [Names -> Kinds], b \in BOOLEAN }
    \cup
    { [ runtimes |-> r, kind |-> NoChildren, book |-> b ] : r \in { "missing", "file" }, b \in BOOLEAN }

Join(path, name) == Append(path, name)

\* os.path.isdir(path)
IsDir(f, path) ==
    CASE path = << "runtimes" >> -> f.runtimes = "dir"
      [] Len(path) = 2 /\ path[1] = "runtimes" ->
            f.runtimes = "dir" /\ f.kind[path[2]] \in { "dir", "crate" }
      [] OTHER -> FALSE

\* os.path.exists(path)
Exists(f, path) ==
    CASE path = << "docs", "book.toml" >> -> f.book
      [] Len(path) = 3 /\ path[1] = "runtimes" /\ path[3] = "Cargo.toml" ->
            f.runtimes = "dir" /\ f.kind[path[2]] = "crate"
      [] OTHER -> FALSE

\* os.listdir(path) raises OSError unless path is a directory
ListDirRaises(f, path) == ~ IsDir(f, path)

\* the names os.listdir(runtimes_dir) returns, as a set
Children(f) == { n \in Names : f.kind[n] # "none" }

\* os.listdir returns the names in arbitrary order: every ordering of the set
Orderings(S) ==
    { s \in [ 1..Cardinality(S) -> S ] : \A i, j \in 1..Cardinality(S) : s[i] = s[j] => i = j }

----------------------------------------------------------------------------
(* Events of the history *)

Ev(k, a, c, o) == [ kind |-> k, argv |-> a, cwd |-> c, ok |-> o ]

Here == << >>     \* cwd not given: the child inherits the task's directory

Stmt(o, e) == [ op |-> o, entry |-> e ]

----------------------------------------------------------------------------
(* The task functions: the statements inside each `with Flox("."):` block *)

BuildCmds == { "build_workspace", "build_runtimes" }
CheckCmds == { "check_all", "check_workspace", "check_fmt", "check_clippy" }
TestCmds  == { "test_all", "test_unit", "test_runtimes", "test_integration" }
DocsCmds  == { "docs_build", "docs_serve" }
Cmds      == BuildCmds \cup CheckCmds \cup TestCmds \cup DocsCmds

Ports == { "3000", "8080" }

build_workspace == << Stmt("build_workspace.run", "") >>

build_runtimes == << Stmt("build_runtimes.for", "") >>

\* a slip: the linter is run before the formatter
check_all_swapped == << Stmt("run_clippy", ""), Stmt("run_fmt", ""), Stmt("check_all.run", "") >>

check_all == << Stmt("run_fmt", ""), Stmt("run_clippy", ""), Stmt("check_all.run", "") >>

check_workspace == << Stmt("check_workspace.run", "") >>

check_fmt == << Stmt("run_fmt", "") >>

check_clippy == << Stmt("run_clippy", "") >>

\* a slip: the runtimes are tested before the workspace
test_all_swapped == << Stmt("run_runtimes.for", ""), Stmt("run_unit", "") >>

test_all == << Stmt("run_unit", ""), Stmt("run_runtimes.for", "") >>

test_unit == << Stmt("run_unit", "") >>

test_runtimes == << Stmt("run_runtimes.for", "") >>

test_integration == << Stmt("test_integration.run", "") >>

docs_build == << Stmt("docs_build.run", ""), Stmt("docs_build.print", "") >>

docs_serve == << Stmt("docs_serve.run", "") >>

Body(c) ==
    CASE c = "build_workspace"  -> build_workspace
      [] c = "build_runtimes"   -> build_runtimes
      [] c = "check_all"        -> check_all
      [] c = "check_workspace"  -> check_workspace
      [] c = "check_fmt"        -> check_fmt
      [] c = "check_clippy"     -> check_clippy
      [] c = "test_all"         -> test_all
      [] c = "test_unit"        -> test_unit
      [] c = "test_runtimes"    -> test_runtimes
      [] c = "test_integration" -> test_integration
      [] c = "docs_build"       -> docs_build
      [] c = "docs_serve"       -> docs_serve

----------------------------------------------------------------------------
(* Argument vectors *)

BuildWorkspaceArgv(rel) ==
    << "cargo", "build", "--workspace" >> \o (IF rel THEN << "--release" >> ELSE << >>)

BuildRuntimeArgv(rel) ==
    << "cargo", "build", "--target", "wasm32-wasip1" >> \o (IF rel THEN << "--release" >> ELSE << >>)

CargoCheckArgv == << "cargo", "check", "--workspace" >>

\* a slip: the --check branch is lost
FmtArgvAlwaysApply(apply_fix) == << "cargo", "fmt", "--all" >>

FmtArgv(apply_fix) ==
    IF apply_fix THEN << "cargo", "fmt", "--all" >>
    ELSE << "cargo", "fmt", "--all", "--", "--check" >>

\* a slip: the verify-only branch is written apart and loses -D warnings
ClippyArgvDrifted(apply_fix) ==
    IF apply_fix
    THEN << "cargo", "clippy", "--workspace", "--fix", "--allow-dirty", "--", "-D", "warnings" >>
    ELSE << "cargo", "clippy", "--workspace" >>

ClippyArgv(apply_fix) ==
    << "cargo", "clippy", "--workspace" >>
       \o (IF apply_fix THEN << "--fix", "--allow-dirty" >> ELSE << >>)
       \o << "--", "-D", "warnings" >>

UnitArgv == << "cargo", "test", "--workspace", "--", "--test-threads=1" >>

IntegrationArgv == << "cargo", "test", "--workspace", "--", "--ignored", "--test-threads=1" >>

RuntimeTestArgv == << "cargo", "test" >>

MdbookBuildArgv == << "mdbook", "build" >>

MdbookServeArgv(p) == << "mdbook", "serve", "--port", p, "--open" >>

\* the apply_fix argument the check tasks pass to _run_fmt / _run_clippy
\* a slip: check_all passes check_only itself on
ApplyFixCheckAllInverted(c, only) == IF c = "check_all" THEN only ELSE ~ only

ApplyFix(c, only) ==
    CASE c = "check_all"    -> ~ only      \* apply = not check_only
      [] c = "check_fmt"    -> ~ only      \* _run_fmt(not check_only)
      [] c = "check_clippy" -> ~ only      \* _run_clippy(not check_only)

----------------------------------------------------------------------------
(* Paths *)

runtimes_dir == << "runtimes" >>     \* os.path.join(os.getcwd(), "runtimes")

docs_dir == << "docs" >>             \* os.path.join(os.getcwd(), "docs")

book_toml == Join(docs_dir, "book.toml")

\* a slip: the Cargo.toml test is lost
BuildIsRuntimeNoManifest(f, runtime_path) == IsDir(f, runtime_path)

\* the filter of build_runtimes' loop
BuildIsRuntime(f, runtime_path) ==
    IsDir(f, runtime_path) /\ Exists(f, Join(runtime_path, "Cargo.toml"))

\* a slip: the Cargo.toml test is lost
TestIsRuntimeNoManifest(f, runtime_path) == IsDir(f, runtime_path)

\* the filter of _run_runtimes' loop
TestIsRuntime(f, runtime_path) ==
    IsDir(f, runtime_path) /\ Exists(f, Join(runtime_path, "Cargo.toml"))

----------------------------------------------------------------------------
(* Initial states: one dispatched task, any flags it declares, any tree *)

Init ==
    /\ fs \in FsStates
    /\ cmd \in Cmds
    /\ release \in (IF cmd \in BuildCmds THEN BOOLEAN ELSE { FALSE })
    /\ check_only \in (IF cmd \in { "check_all", "check_fmt", "check_clippy" } THEN BOOLEAN ELSE { FALSE })
    /\ port \in (IF cmd = "docs_serve" THEN Ports ELSE { "3000" })
    /\ pc = "call"
    /\ todo = << >>
    /\ entries = << >>
    /\ guard = FALSE
    /\ child = FALSE
    /\ exc = "none"
    /\ exit = "running"
    /\ trace = << >>
    /\ fsStable = TRUE
    /\ discovered = << >>
    /\ fsChanges = 0

\* the entry is, in the tree as it is now, a directory holding Cargo.toml
HoldsManifest(n) ==
    IsDir(fs, Join(runtimes_dir, n)) /\ Exists(fs, Join(Join(runtimes_dir, n), "Cargo.toml"))

----------------------------------------------------------------------------
(* Steps shared by the statements *)

\* the statement at the head of the with-block is `op`, and it may run
At(op) ==
    /\ pc = "body"
    /\ ~ child
    /\ exc = "none"
    /\ todo # << >>
    /\ Head(todo).op = op

\* a slip: the child is started and not waited for (Popen for run)
SpawnNoWait(before, argv, wd) ==
    /\ trace' = trace \o before \o << Ev("start", argv, wd, TRUE) >>
    /\ todo' = Tail(todo)
    /\ UNCHANGED << fs, cmd, release, check_only, port, pc, entries, guard, child,
                    exc, exit, fsStable, fsChanges, discovered >>

\* subprocess.run(argv, cwd=cwd, check=True) starts its child, after `before`
Spawn(before, argv, wd) ==
    /\ trace' = trace \o before \o << Ev("start", argv, wd, TRUE) >>
    /\ child' = TRUE
    /\ UNCHANGED << fs, cmd, release, check_only, port, pc, todo, entries, guard,
                    exc, exit, fsStable, fsChanges, discovered >>

\* print(...)
Stdout(text) == Ev("print", text, Here, TRUE)

----------------------------------------------------------------------------
(* The Flox(".") context manager and the return to angreal *)

\* a slip: the body runs without the `with Flox("."):` around it
FloxEnterNoActivate ==
    /\ \/ pc = "call" /\ cmd \notin DocsCmds
       \/ pc = "checked"
    /\ pc' = "body"
    /\ todo' = Body(cmd)
    /\ UNCHANGED << fs, cmd, release, check_only, port, entries, guard, child, exc,
                    exit, trace, fsStable, fsChanges, discovered >>

\* `with Flox("."):` is entered: first statement of every task but the docs
\* tasks, which reach it after their book.toml test
FloxEnter ==
    /\ \/ pc = "call" /\ cmd \notin DocsCmds
       \/ pc = "checked"
    /\ guard' = TRUE
    /\ pc' = "body"
    /\ todo' = Body(cmd)
    /\ trace' = Append(trace, Ev("acquire", << >>, Here, TRUE))
    /\ UNCHANGED << fs, cmd, release, check_only, port, entries, child, exc, exit,
                    fsStable, fsChanges, discovered >>

\* a slip: the context is left without deactivating when an exception propagates
FloxExitLeaks ==
    /\ pc = "body"
    /\ ~ child
    /\ todo = << >> \/ exc # "none"
    /\ guard' = (exc # "none")
    /\ pc' = "return"
    /\ trace' = IF exc = "none" THEN Append(trace, Ev("release", << >>, Here, TRUE)) ELSE trace
    /\ UNCHANGED << fs, cmd, release, check_only, port, todo, entries, child, exc,
                    exit, fsStable, fsChanges, discovered >>

\* the with-block is left, by falling off its end or by an exception
FloxExit ==
    /\ pc = "body"
    /\ ~ child
    /\ todo = << >> \/ exc # "none"
    /\ guard' = FALSE
    /\ pc' = "return"
    /\ trace' = Append(trace, Ev("release", << >>, Here, TRUE))
    /\ UNCHANGED << fs, cmd, release, check_only, port, todo, entries, child, exc,
                    exit, fsStable, fsChanges, discovered >>

\* the task function returns None, or the exception reaches angreal
Return ==
    /\ pc = "return"
    /\ pc' = "done"
    /\ exit' = IF exc = "none" THEN "zero" ELSE "nonzero"
    /\ UNCHANGED << fs, cmd, release, check_only, port, todo, entries, guard, child,
                    exc, trace, fsStable, fsChanges, discovered >>

----------------------------------------------------------------------------
(* subprocess.run(..., check=True): the child ends *)

\* a slip: check=True left out, a failing child is not noticed
ChildFailsUnchecked ==
    /\ pc = "body"
    /\ child
    /\ child' = FALSE
    /\ todo' = Tail(todo)
    /\ trace' = Append(trace, Ev("end", << >>, Here, FALSE))
    /\ UNCHANGED << fs, cmd, release, check_only, port, pc, entries, guard, exc,
                    exit, fsStable, fsChanges, discovered >>

\* exit code 0: subprocess.run returns, the statement is done
ChildSucceeds ==
    /\ pc = "body"
    /\ child
    /\ child' = FALSE
    /\ todo' = Tail(todo)
    /\ trace' = Append(trace, Ev("end", << >>, Here, TRUE))
    /\ UNCHANGED << fs, cmd, release, check_only, port, pc, entries, guard, exc,
                    exit, fsStable, fsChanges, discovered >>

\* exit code not 0 (or the tool could not be launched): check=True raises
ChildFails ==
    /\ pc = "body"
    /\ child
    /\ child' = FALSE
    /\ exc' = "CalledProcessError"
    /\ trace' = Append(trace, Ev("end", << >>, Here, FALSE))
    /\ UNCHANGED << fs, cmd, release, check_only, port, pc, todo, entries, guard,
                    exit, fsStable, fsChanges, discovered >>

----------------------------------------------------------------------------
(* task_build.py *)

\* build_workspace: subprocess.run(cmd, check=True)
BuildWorkspaceRun ==
    /\ At("build_workspace.run")
    /\ Spawn(<< >>, BuildWorkspaceArgv(release), Here)

\* a slip: a runtimes directory that cannot be listed counts as no runtimes
BuildRuntimesForLenient ==
    /\ At("build_runtimes.for")
    /\ IF ListDirRaises(fs, runtimes_dir)
       THEN /\ entries' = << >>
            /\ discovered' = << >>
            /\ todo' = Tail(todo)
            /\ trace' = Append(trace, Ev("listdir", runtimes_dir, Here, FALSE))
            /\ UNCHANGED exc
       ELSE /\ \E listing \in Orderings(Children(fs)) : entries' = Sorted(listing)
            /\ discovered' = SelectSeq(entries', HoldsManifest)
            /\ todo' = [ i \in 1..Len(entries') |-> Stmt("build_runtimes.entry", entries'[i]) ]
                          \o Tail(todo)
            /\ trace' = Append(trace, Ev("listdir", runtimes_dir, Here, TRUE))
            /\ UNCHANGED exc
    /\ UNCHANGED << fs, cmd, release, check_only, port, pc, guard, child, exit, fsStable, fsChanges >>

\* build_runtimes: `for entry in sorted(os.listdir(runtimes_dir)):` is evaluated
BuildRuntimesFor ==
    /\ At("build_runtimes.for")
    /\ IF ListDirRaises(fs, runtimes_dir)
       THEN /\ exc' = "OSError"
            /\ trace' = Append(trace, Ev("listdir", runtimes_dir, Here, FALSE))
            /\ UNCHANGED << todo, entries, discovered >>
       ELSE /\ \E listing \in Orderings(Children(fs)) : entries' = Sorted(listing)
            /\ discovered' = SelectSeq(entries', HoldsManifest)
            /\ todo' = [ i \in 1..Len(entries') |-> Stmt("build_runtimes.entry", entries'[i]) ]
                          \o Tail(todo)
            /\ trace' = Append(trace, Ev("listdir", runtimes_dir, Here, TRUE))
            /\ UNCHANGED exc
    /\ UNCHANGED << fs, cmd, release, check_only, port, pc, guard, child, exit, fsStable, fsChanges >>

\* a slip: cwd=runtime_path is left out of subprocess.run
BuildRuntimesEntryNoCwd ==
    /\ At("build_runtimes.entry")
    /\ LET entry == Head(todo).entry
           runtime_path == Join(runtimes_dir, entry)
       IN  IF BuildIsRuntime(fs, runtime_path)
           THEN Spawn(<< Stdout(<< "--- Building runtime:", entry >>) >>,
                      BuildRuntimeArgv(release), Here)
           ELSE /\ todo' = Tail(todo)
                /\ UNCHANGED << fs, cmd, release, check_only, port, pc, entries, guard,
                                child, exc, exit, trace, fsStable, fsChanges, discovered >>

\* a slip: the marker is printed before the entry is tested
BuildRuntimesEntryMarksAll ==
    /\ At("build_runtimes.entry")
    /\ LET entry == Head(todo).entry
           runtime_path == Join(runtimes_dir, entry)
       IN  IF BuildIsRuntime(fs, runtime_path)
           THEN Spawn(<< Stdout(<< "--- Building runtime:", entry >>) >>,
                      BuildRuntimeArgv(release), runtime_path)
           ELSE /\ todo' = Tail(todo)
                /\ trace' = Append(trace, Stdout(<< "--- Building runtime:", entry >>))
                /\ UNCHANGED << fs, cmd, release, check_only, port, pc, entries, guard,
                                child, exc, exit, fsStable, fsChanges, discovered >>

\* build_runtimes: one pass of the loop body, for the entry at the head
BuildRuntimesEntry ==
    /\ At("build_runtimes.entry")
    /\ LET entry == Head(todo).entry
           runtime_path == Join(runtimes_dir, entry)
       IN  IF BuildIsRuntime(fs, runtime_path)
           THEN Spawn(<< Stdout(<< "--- Building runtime:", entry >>) >>,
                      BuildRuntimeArgv(release), runtime_path)
           ELSE /\ todo' = Tail(todo)
                /\ UNCHANGED << fs, cmd, release, check_only, port, pc, entries, guard,
                                child, exc, exit, trace, fsStable, fsChanges, discovered >>

----------------------------------------------------------------------------
(* task_check.py *)

\* _run_fmt(apply_fix)
RunFmt ==
    /\ At("run_fmt")
    /\ Spawn(<< >>, FmtArgv(ApplyFix(cmd, check_only)), Here)

\* _run_clippy(apply_fix)
RunClippy ==
    /\ At("run_clippy")
    /\ Spawn(<< >>, ClippyArgv(ApplyFix(cmd, check_only)), Here)

\* check_all: subprocess.run(["cargo", "check", "--workspace"], check=True)
CheckAllRun ==
    /\ At("check_all.run")
    /\ Spawn(<< >>, CargoCheckArgv, Here)

\* check_workspace: subprocess.run(["cargo", "check", "--workspace"], check=True)
CheckWorkspaceRun ==
    /\ At("check_workspace.run")
    /\ Spawn(<< >>, CargoCheckArgv, Here)

----------------------------------------------------------------------------
(* task_test.py *)

\* _run_unit()
RunUnit ==
    /\ At("run_unit")
    /\ Spawn(<< >>, UnitArgv, Here)

\* test_integration: subprocess.run([... "--ignored" ...], check=True)
TestIntegrationRun ==
    /\ At("test_integration.run")
    /\ Spawn(<< >>, IntegrationArgv, Here)

\* _run_runtimes: `for entry in sorted(os.listdir(runtimes_dir)):` is evaluated
RunRuntimesFor ==
    /\ At("run_runtimes.for")
    /\ IF ListDirRaises(fs, runtimes_dir)
       THEN /\ exc' = "OSError"
            /\ trace' = Append(trace, Ev("listdir", runtimes_dir, Here, FALSE))
            /\ UNCHANGED << todo, entries, discovered >>
       ELSE /\ \E listing \in Orderings(Children(fs)) : entries' = Sorted(listing)
            /\ discovered' = SelectSeq(entries', HoldsManifest)
            /\ todo' = [ i \in 1..Len(entries') |-> Stmt("run_runtimes.entry", entries'[i]) ]
                          \o Tail(todo)
            /\ trace' = Append(trace, Ev("listdir", runtimes_dir, Here, TRUE))
            /\ UNCHANGED exc
    /\ UNCHANGED << fs, cmd, release, check_only, port, pc, guard, child, exit, fsStable, fsChanges >>

\* _run_runtimes: one pass of the loop body, for the entry at the head
RunRuntimesEntry ==
    /\ At("run_runtimes.entry")
    /\ LET entry == Head(todo).entry
           runtime_path == Join(runtimes_dir, entry)
       IN  IF TestIsRuntime(fs, runtime_path)
           THEN Spawn(<< Stdout(<< "--- Testing runtime:", entry >>) >>,
                      RuntimeTestArgv, runtime_path)
           ELSE /\ todo' = Tail(todo)
                /\ UNCHANGED << fs, cmd, release, check_only, port, pc, entries, guard,
                                child, exc, exit, trace, fsStable, fsChanges, discovered >>

----------------------------------------------------------------------------
(* task_docs.py *)

\* a slip: the message is printed but the `return` is missing
DocsBuildCheckFallsThrough ==
    /\ pc = "call"
    /\ cmd = "docs_build"
    /\ pc' = "checked"
    /\ trace' = trace \o << Ev("exists", book_toml, Here, Exists(fs, book_toml)) >>
                      \o (IF Exists(fs, book_toml) THEN << >>
                          ELSE << Stdout(<< "Error: docs/book.toml not found" >>) >>)
    /\ UNCHANGED << fs, cmd, release, check_only, port, todo, entries, guard, child,
                    exc, exit, fsStable, fsChanges, discovered >>

\* docs_build: `if not os.path.exists(...book.toml): print(...); return`
DocsBuildCheck ==
    /\ pc = "call"
    /\ cmd = "docs_build"
    /\ IF Exists(fs, book_toml)
       THEN /\ pc' = "checked"
            /\ trace' = Append(trace, Ev("exists", book_toml, Here, TRUE))
       ELSE /\ pc' = "return"
            /\ trace' = trace \o << Ev("exists", book_toml, Here, FALSE),
                                    Stdout(<< "Error: docs/book.toml not found" >>) >>
    /\ UNCHANGED << fs, cmd, release, check_only, port, todo, entries, guard, child,
                    exc, exit, fsStable, fsChanges, discovered >>

\* docs_build: subprocess.run(["mdbook", "build"], cwd=docs_dir, check=True)
DocsBuildRun ==
    /\ At("docs_build.run")
    /\ Spawn(<< >>, MdbookBuildArgv, docs_dir)

\* docs_build: print(f"\nDocumentation built to ...")
DocsBuildPrint ==
    /\ At("docs_build.print")
    /\ todo' = Tail(todo)
    /\ trace' = Append(trace, Stdout(<< "Documentation built to", "docs/book" >>))
    /\ UNCHANGED << fs, cmd, release, check_only, port, pc, entries, guard, child,
                    exc, exit, fsStable, fsChanges, discovered >>

\* docs_serve: `if not os.path.exists(...book.toml): print(...); return`
DocsServeCheck ==
    /\ pc = "call"
    /\ cmd = "docs_serve"
    /\ IF Exists(fs, book_toml)
       THEN /\ pc' = "checked"
            /\ trace' = Append(trace, Ev("exists", book_toml, Here, TRUE))
       ELSE /\ pc' = "return"
            /\ trace' = trace \o << Ev("exists", book_toml, Here, FALSE),
                                    Stdout(<< "Error: docs/book.toml not found" >>) >>
    /\ UNCHANGED << fs, cmd, release, check_only, port, todo, entries, guard, child,
                    exc, exit, fsStable, fsChanges, discovered >>

\* docs_serve: subprocess.run(["mdbook", "serve", "--port", port, "--open"], ...)
DocsServeRun ==
    /\ At("docs_serve.run")
    /\ Spawn(<< >>, MdbookServeArgv(port), docs_dir)

----------------------------------------------------------------------------
(* The environment: the tree changes under the running task (a child that  *)
(* writes into it, another process), one change at a time.  The task looks *)
(* at the tree only in its own steps, which take no time beside a child's  *)
(* run: a change between two of its steps is a change during the child's   *)
(* run before them, or a different initial tree.                           *)

FsSetEntry ==
    /\ child
    /\ fsChanges < MaxFsChanges
    /\ fsChanges' = fsChanges + 1
    /\ fs.runtimes = "dir"
    /\ \E n \in Names, k \in Kinds :
          /\ k # fs.kind[n]
          /\ fs' = [ fs EXCEPT !.kind[n] = k ]
    /\ fsStable' = FALSE
    /\ UNCHANGED << cmd, release, check_only, port, pc, todo, entries, guard, child,
                    exc, exit, trace,
                    discovered >>

FsSetRuntimes ==
    /\ child
    /\ fsChanges < MaxFsChanges
    /\ fsChanges' = fsChanges + 1
    /\ \E r \in { "missing", "file", "dir" } :
          /\ r # fs.runtimes
          /\ fs' = [ fs EXCEPT !.runtimes = r, !.kind = NoChildren ]
    /\ fsStable' = FALSE
    /\ UNCHANGED << cmd, release, check_only, port, pc, todo, entries, guard, child,
                    exc, exit, trace,
                    discovered >>

FsSetBook ==
    /\ child
    /\ fsChanges < MaxFsChanges
    /\ fsChanges' = fsChanges + 1
    /\ fs' = [ fs EXCEPT !.book = ~ fs.book ]
    /\ fsStable' = FALSE
    /\ UNCHANGED << cmd, release, check_only, port, pc, todo, entries, guard, child,
                    exc, exit, trace,
                    discovered >>

----------------------------------------------------------------------------

Next ==
    \/ FloxEnter
    \/ FloxExit
    \/ Return
    \/ ChildSucceeds
    \/ ChildFails
    \/ BuildWorkspaceRun
    \/ BuildRuntimesFor
    \/ BuildRuntimesEntry
    \/ RunFmt
    \/ RunClippy
    \/ CheckAllRun
    \/ CheckWorkspaceRun
    \/ RunUnit
    \/ TestIntegrationRun
    \/ RunRuntimesFor
    \/ RunRuntimesEntry
    \/ DocsBuildCheck
    \/ DocsBuildRun
    \/ DocsBuildPrint
    \/ DocsServeCheck
    \/ DocsServeRun
    \/ FsSetEntry
    \/ FsSetRuntimes
    \/ FsSetBook

Spec == Init /\ [][Next]_vars

----------------------------------------------------------------------------
(* Reading the history *)

Range(s) == { s[i] : i \in DOMAIN s }

IsStart(e) == e.kind = "start"

IsTargetStart(e) == e.kind = "start" /\ Len(e.cwd) = 2 /\ e.cwd[1] = "runtimes"

Starts == SelectSeq(trace, IsStart)

TargetStarts == SelectSeq(trace, IsTargetStart)

\* the runtimes that got an invocation, in the order they got it
Visited == [ i \in 1..Len(TargetStarts) |-> TargetStarts[i].cwd[2] ]

Failed(i) == trace[i].kind = "end" /\ ~ trace[i].ok

SomeFailed == \E i \in DOMAIN trace : Failed(i)

Count(k) == Len(SelectSeq(trace, LAMBDA e : e.kind = k))

ListDirFailed == \E i \in DOMAIN trace : trace[i].kind = "listdir" /\ ~ trace[i].ok

Listed == \E i \in DOMAIN trace : trace[i].kind = "listdir" /\ trace[i].ok

MarkerSeenAbsent == \E i \in DOMAIN trace : trace[i].kind = "exists" /\ ~ trace[i].ok

NoStartAfterFailure ==
    \A i \in DOMAIN trace :
        Failed(i) => \A j \in (i + 1)..Len(trace) : trace[j].kind # "start"

RuntimeCmds == { "build_runtimes", "test_runtimes", "test_all" }

\* the entries of the running loop that have not had their pass yet
PendingNames ==
    { todo[i].entry : i \in { j \in DOMAIN todo :
          /\ todo[j].op \in { "build_runtimes.entry", "run_runtimes.entry" }
          /\ ~ (j = 1 /\ (child \/ exc # "none")) } }

----------------------------------------------------------------------------
(* C1 *)

\* C1, as stated: a finished command whose invocations all succeeded exits 0;
\* one with a failed invocation exits non-zero; nothing starts after a failure.
C1_AsStated ==
    /\ NoStartAfterFailure
    /\ pc = "done" =>
          /\ ~ SomeFailed => exit = "zero"
          /\ SomeFailed => exit = "nonzero"

\* C1, amended: a finished command whose invocations all succeeded AND whose
\* listing of the runtimes directory did not fail exits 0; one with a failed
\* invocation exits non-zero; nothing starts after a failure, so at most one
\* invocation fails.
C1_ShortCircuit ==
    /\ NoStartAfterFailure
    /\ \A i \in DOMAIN trace : Failed(i) => \A j \in DOMAIN trace : Failed(j) => j = i
    /\ pc = "done" =>
          /\ (~ SomeFailed /\ ~ ListDirFailed) => exit = "zero"
          /\ SomeFailed => exit = "nonzero"

\* build runtimes: the first runtime built, the second failed, a third eligible
\* one was never started
C1_Witness ==
    /\ pc = "done"
    /\ cmd = "build_runtimes"
    /\ exit = "nonzero"
    /\ Len(Starts) = 2
    /\ SomeFailed
    /\ Len(todo) = 2
    /\ fs.kind[todo[2].entry] = "crate"

----------------------------------------------------------------------------
(* C2 *)

\* C2, as stated: every finished command entered the Flox context exactly
\* once and left it exactly once.
C2_AsStated ==
    pc = "done" => (Count("acquire") = 1 /\ Count("release") = 1)

\* C2, amended: the context is entered at most once and left exactly as often
\* as entered, on every path; it is entered (once) on every path except the
\* one where docs build / docs serve found book.toml absent, where it is
\* never entered.
C2_GuardBalanced ==
    LET acquired == Count("acquire")
        released == Count("release")
    IN  /\ acquired <= 1
        /\ released <= acquired
        /\ guard <=> (acquired > released)
        /\ pc \in { "return", "done" } =>
              /\ released = acquired
              /\ (acquired = 1) <=> ~ MarkerSeenAbsent

\* an invocation failed partway through a sequence, and the context was left once
C2_Witness ==
    /\ pc = "done"
    /\ Len(Starts) >= 2
    /\ SomeFailed
    /\ Count("acquire") = 1
    /\ Count("release") = 1

----------------------------------------------------------------------------
(* C3 *)

\* C3: every failure path (a failed invocation, a runtimes directory that
\* cannot be listed, book.toml absent for docs build / docs serve) ends with
\* a non-zero exit status.
C3_FailureExitsNonZero ==
    (pc = "done" /\ (SomeFailed \/ ListDirFailed \/ MarkerSeenAbsent)) => exit = "nonzero"

----------------------------------------------------------------------------
(* C4 *)

\* C4: mdbook is started only in executions whose book.toml test, the first
\* thing the docs tasks do, found the file; where it found it absent, no
\* mdbook invocation is ever started.
C4_NoDocToolWithoutMarker ==
    /\ MarkerSeenAbsent => \A i \in DOMAIN trace : trace[i].kind # "start"
    /\ \A i \in DOMAIN trace :
          (IsStart(trace[i]) /\ trace[i].argv[1] = "mdbook") =>
              /\ trace[1] = Ev("exists", book_toml, Here, TRUE)
              /\ fsStable => fs.book
    /\ (cmd \in DocsCmds /\ pc = "call") => trace = << >>

\* docs serve found book.toml absent and has finished
C4_Witness ==
    /\ cmd = "docs_serve"
    /\ pc = "done"
    /\ MarkerSeenAbsent
    /\ ~ fs.book

----------------------------------------------------------------------------
(* C5 *)

StrictlyIncreasing(s) == \A i, j \in DOMAIN s : i < j => StrLess(s[i], s[j])

\* C5: the runtimes visited by build runtimes / test runtimes / test all are
\* visited in strictly increasing lexicographic order of name; and the list
\* the loop runs over is the same for every order in which os.listdir may
\* return the names of an unchanged tree: it is the one strictly increasing
\* arrangement of the names present.
C5_DiscoveryOrdered ==
    /\ LET visited == Visited IN StrictlyIncreasing(visited)
    /\ StrictlyIncreasing(entries)
    /\ (Listed /\ fsStable) =>
          /\ Range(entries) = Children(fs)
          /\ \A listing \in Orderings(Children(fs)) : Sorted(listing) = entries

\* three runtimes were visited: alpha, beta, gamma, in that order
C5_Witness ==
    /\ fsStable
    /\ Visited = << "alpha", "beta", "gamma" >>

----------------------------------------------------------------------------
(* C6 *)

IsCrate(n) == fs.runtimes = "dir" /\ fs.kind[n] = "crate"

\* C6: with the tree unchanged during the command, a child of runtimes/ gets
\* an invocation only if it is a directory holding Cargo.toml, and every such
\* directory whose turn has come has got one as long as nothing has failed; a
\* command that ends with status 0 has visited exactly those directories.  In
\* every case only names that were listed are visited.
C6_TargetsExactlyCrates ==
    /\ Range(Visited) \subseteq Range(entries)
    /\ fsStable =>
          /\ \A n \in Range(Visited) : IsCrate(n)
          /\ (Listed /\ exc = "none") =>
                \A n \in Names : (IsCrate(n) /\ n \notin PendingNames) => n \in Range(Visited)
          /\ (cmd \in RuntimeCmds /\ pc = "done" /\ exit = "zero") =>
                Range(Visited) = { n \in Names : IsCrate(n) }

\* alpha/ with Cargo.toml, beta/ without, gamma/ with: exactly alpha, gamma
C6_Witness ==
    /\ fsStable
    /\ pc = "done"
    /\ exit = "zero"
    /\ fs.kind = [ n \in Names |-> IF n = "beta" THEN "dir" ELSE "crate" ]
    /\ Visited = << "alpha", "gamma" >>

----------------------------------------------------------------------------
(* C7 *)

IsPrefix(s, t) == Len(s) <= Len(t) /\ \A i \in DOMAIN s : s[i] = t[i]

\* C7: check all starts cargo fmt, then cargo clippy, then cargo check, in
\* that order and nothing else, each but the first right after the previous
\* one ended with success; after a failure nothing is started.  For both
\* values of --check-only.
C7_CheckAllOrder ==
    cmd = "check_all" =>
        /\ IsPrefix([ i \in DOMAIN Starts |-> Starts[i].argv[2] ], << "fmt", "clippy", "check" >>)
        /\ \A i \in DOMAIN trace :
              IsStart(trace[i]) =>
                  /\ i > 1
                  /\ \/ trace[i - 1].kind = "acquire"
                     \/ trace[i - 1].kind = "end" /\ trace[i - 1].ok
        /\ NoStartAfterFailure
        /\ (pc = "done" /\ exit = "zero") => Len(Starts) = 3

\* check all --check-only: the formatter failed, and nothing else was started
C7_Witness ==
    /\ cmd = "check_all"
    /\ check_only
    /\ pc = "done"
    /\ SomeFailed
    /\ Len(Starts) = 1

----------------------------------------------------------------------------
(* C8 *)

\* an invocation that may rewrite tracked files
AppliesChanges(argv) ==
    \/ argv[2] = "fmt" /\ "--check" \notin Range(argv)
    \/ argv[2] = "clippy" /\ "--fix" \in Range(argv)

\* C8: with --check-only set, check all / check fmt / check clippy start no
\* invocation in apply mode: the formatter only with --check, the linter
\* never with --fix.
C8_CheckOnlyNeverApplies ==
    check_only => \A i \in DOMAIN Starts : ~ AppliesChanges(Starts[i].argv)

\* check all --check-only ran all three of its stages
C8_Witness ==
    /\ cmd = "check_all"
    /\ check_only
    /\ pc = "done"
    /\ exit = "zero"
    /\ Len(Starts) = 3

----------------------------------------------------------------------------
(* C9 *)

\* C9: in build runtimes, test runtimes and test all, a runtimes directory
\* that is missing or is no directory when it is listed makes the command
\* end with a non-zero status, with no per-runtime invocation made.
C9_DiscoveryErrorFails ==
    /\ ListDirFailed =>
          /\ exc = "OSError"
          /\ TargetStarts = << >>
          /\ pc = "done" => exit = "nonzero"
    /\ (cmd \in RuntimeCmds /\ fsStable /\ fs.runtimes # "dir" /\ pc = "done") =>
          /\ exit = "nonzero"
          /\ TargetStarts = << >>

\* build runtimes ended where runtimes/ does not exist
C9_Witness ==
    /\ cmd = "build_runtimes"
    /\ pc = "done"
    /\ fs.runtimes = "missing"
    /\ ListDirFailed

----------------------------------------------------------------------------
(* C10 *)

\* C10: in test all, the runtimes directory is listed and a runtime is tested
\* only after the workspace unit tests were started and ended with success;
\* if they fail, nothing is listed and no runtime is tested.
C10_UnitBeforeRuntimes ==
    cmd = "test_all" =>
        \A i \in DOMAIN trace :
            (trace[i].kind = "listdir" \/ IsTargetStart(trace[i])) =>
                \E j \in 2..(i - 1) :
                    /\ trace[j] = Ev("end", << >>, Here, TRUE)
                    /\ trace[j - 1] = Ev("start", UnitArgv, Here, TRUE)

\* test all: the unit tests failed with runtimes present; nothing was listed
C10_Witness ==
    /\ cmd = "test_all"
    /\ pc = "done"
    /\ SomeFailed
    /\ \E n \in Names : IsCrate(n)
    /\ Count("listdir") = 0
    /\ Len(Starts) = 1

----------------------------------------------------------------------------
(* C11 *)

\* C11: every child is started and ended, and the runtimes directory is
\* listed, inside the Flox context: the context was entered before, it is
\* left only as the last thing the command does, a child runs only while it
\* is entered, and it is not entered any more when the command returns.
C11_GuardHeld ==
    /\ child => (guard /\ pc = "body")
    /\ \A i \in DOMAIN trace :
          /\ trace[i].kind \in { "start", "end", "listdir" } =>
                \E j \in 1..(i - 1) : trace[j].kind = "acquire"
          /\ trace[i].kind = "release" => i = Len(trace)
    /\ pc = "body" => guard
    /\ pc \in { "return", "done" } => ~ guard

\* test all has listed the runtimes, tested one and returned
C11_Witness ==
    /\ cmd = "test_all"
    /\ pc = "done"
    /\ exit = "zero"
    /\ Listed
    /\ Len(TargetStarts) >= 1
    /\ ~ guard

----------------------------------------------------------------------------
(* C12 *)

RECURSIVE Subsequence(_, _)
\* s is t with some elements left out
Subsequence(s, t) ==
    IF s = << >> THEN TRUE
    ELSE IF t = << >> THEN FALSE
    ELSE IF Head(s) = Head(t) THEN Subsequence(Tail(s), Tail(t))
    ELSE Subsequence(s, Tail(t))

\* C12: when build runtimes / test runtimes end with status 0, the invocations
\* made are per-runtime ones only, each with the command's argument vector
\* and the runtime's own directory as cwd, each ended with success, no
\* runtime twice, in the order of the listing; with the tree unchanged they
\* are exactly the listed directories holding Cargo.toml, in that order.
C12_EachTargetOnce ==
    (cmd \in { "build_runtimes", "test_runtimes" } /\ pc = "done" /\ exit = "zero") =>
        /\ Starts = TargetStarts
        /\ \A i \in DOMAIN Starts :
              /\ Starts[i].cwd = Join(runtimes_dir, Visited[i])
              /\ Starts[i].argv = IF cmd = "build_runtimes" THEN BuildRuntimeArgv(release)
                                                            ELSE RuntimeTestArgv
        /\ Count("end") = Len(Starts)
        /\ ~ SomeFailed
        /\ Subsequence(Visited, entries)
        /\ \A i \in DOMAIN Visited : \A j \in DOMAIN Visited : Visited[i] = Visited[j] => i = j
        /\ fsStable => Visited = SelectSeq(entries, IsCrate)

\* build runtimes --release built two of three listed entries and exited 0
C12_Witness ==
    /\ cmd = "build_runtimes"
    /\ release
    /\ pc = "done"
    /\ exit = "zero"
    /\ fsStable
    /\ Len(entries) = 3
    /\ Len(Visited) = 2

----------------------------------------------------------------------------
(* C13 *)

IsMarker(e) ==
    /\ e.kind = "print"
    /\ e.argv[1] \in { "--- Building runtime:", "--- Testing runtime:" }

\* C13: in build runtimes, test runtimes and test all, the event right before
\* each per-runtime invocation is the marker naming that runtime, every
\* marker is followed at once by the invocation of the runtime it names, and
\* so the last marker printed before a failed per-runtime invocation names
\* the runtime that failed.
C13_MarkerBeforeEachTarget ==
    \A i \in DOMAIN trace :
        /\ IsTargetStart(trace[i]) =>
              /\ i > 1
              /\ trace[i - 1] = Stdout(<< IF cmd = "build_runtimes"
                                          THEN "--- Building runtime:"
                                          ELSE "--- Testing runtime:", trace[i].cwd[2] >>)
        /\ IsMarker(trace[i]) =>
              /\ i < Len(trace)
              /\ IsTargetStart(trace[i + 1])
              /\ trace[i + 1].cwd[2] = trace[i].argv[2]
        /\ (Failed(i) /\ i > 2 /\ IsTargetStart(trace[i - 1])) =>
              /\ IsMarker(trace[i - 2])
              /\ trace[i - 2].argv[2] = trace[i - 1].cwd[2]
              /\ \A j \in (i - 1)..Len(trace) : ~ IsMarker(trace[j])

\* test all: the second runtime tested failed, after an entry that was skipped
C13_Witness ==
    /\ cmd = "test_all"
    /\ pc = "done"
    /\ SomeFailed
    /\ Len(TargetStarts) = 2
    /\ Len(entries) = 3
    /\ Visited[2] = entries[3]

----------------------------------------------------------------------------
(* C14 *)

LoopCmds == { "build_runtimes", "test_runtimes" }

\* the entry names the loop still holds, in order (the head is in its pass)
LoopNames ==
    LET loop == SelectSeq(todo, LAMBDA st : st.op \in { "build_runtimes.entry", "run_runtimes.entry" })
    IN  [ i \in DOMAIN loop |-> loop[i].entry ]

IsSuffix(s, t) ==
    /\ Len(s) <= Len(t)
    /\ \A i \in DOMAIN s : s[i] = t[Len(t) - Len(s) + i]

\* C14, as stated: the runtimes that get an invocation are taken from the
\* ones that were directories holding Cargo.toml when the directory was
\* listed, whatever happens to the tree afterwards; a command that ends with
\* status 0 has invoked exactly those.
C14_AsStated ==
    (cmd \in LoopCmds /\ Listed) =>
        /\ Subsequence(Visited, discovered)
        /\ (pc = "done" /\ exit = "zero") => Visited = discovered

\* C14, amended: the list of entry NAMES and their order is fixed when the
\* directory is listed, before the first per-runtime invocation: only listed
\* names are visited, in listing order, and the loop keeps running over the
\* rest of that list whatever happens to the tree.  Whether a listed entry
\* is invoked is decided when the loop reaches it; so it is only with no
\* tree change during the command that the invoked runtimes are the ones
\* eligible at listing time.
C14_NamesFixedFilterLazy ==
    (cmd \in LoopCmds /\ Listed) =>
        /\ Subsequence(Visited, entries)
        /\ Subsequence(discovered, entries)
        /\ IsSuffix(LoopNames, entries)
        /\ fsStable =>
              /\ Subsequence(Visited, discovered)
              /\ (pc = "done" /\ exit = "zero") => Visited = discovered

\* a runtime with Cargo.toml appeared while an earlier one was being handled;
\* it was not in the listing and the command ended, status 0, without it
C14_Witness ==
    /\ cmd \in LoopCmds
    /\ pc = "done"
    /\ exit = "zero"
    /\ ~ fsStable
    /\ Len(Visited) >= 1
    /\ \E n \in Names : IsCrate(n) /\ n \notin Range(entries)

----------------------------------------------------------------------------
(* C15 *)

RECURSIVE Without(_, _)
\* argv with the tokens in `drop` left out
Without(argv, drop) ==
    IF argv = << >> THEN << >>
    ELSE IF Head(argv) \in drop THEN Without(Tail(argv), drop)
    ELSE << Head(argv) >> \o Without(Tail(argv), drop)

\* a trailing "--" passes nothing through: it is no option
NoEmptyPassThrough(argv) ==
    IF argv # << >> /\ argv[Len(argv)] = "--" THEN SubSeq(argv, 1, Len(argv) - 1) ELSE argv

\* the mode-selecting options: rustfmt's --check (passed after "--"), clippy's
\* --fix with --allow-dirty
ModeOptions == { "--check", "--fix", "--allow-dirty" }

SameButMode(a, b) ==
    NoEmptyPassThrough(Without(a, ModeOptions)) = NoEmptyPassThrough(Without(b, ModeOptions))

\* C15: every cargo fmt / cargo clippy invocation a check task starts is,
\* mode-selecting options aside, the argument vector the same step builds in
\* the other mode: the scope (--all, --workspace) and -- -D warnings are the
\* same in both, and the two modes do differ.
C15_ModesDifferOnlyInModeOptions ==
    \A e \in Range(Starts) :
        LET argv == e.argv
            apply == ApplyFix(cmd, check_only)
        IN  /\ argv[2] = "fmt" =>
                  /\ SameButMode(argv, FmtArgv(~ apply))
                  /\ argv # FmtArgv(~ apply)
                  /\ "--all" \in Range(argv)
            /\ argv[2] = "clippy" =>
                  /\ SameButMode(argv, ClippyArgv(~ apply))
                  /\ argv # ClippyArgv(~ apply)
                  /\ { "--workspace", "-D", "warnings" } \subseteq Range(argv)

\* check clippy --check-only has started the linter
C15_Witness ==
    /\ cmd = "check_clippy"
    /\ check_only
    /\ Len(Starts) = 1
    /\ Starts[1].argv[2] = "clippy"

----------------------------------------------------------------------------
(* C16 *)

IsRun(e) == e.kind \in { "start", "end" }

Runs == SelectSeq(trace, IsRun)

\* C16: at most one child is in flight: starts and ends alternate, beginning
\* with a start, so a child is started only after the one before it has
\* ended, across runtimes and across the stages of a command.
C16_OneInFlight ==
    LET runs == Runs
    IN  /\ \A i \in DOMAIN runs : runs[i].kind = (IF i % 2 = 1 THEN "start" ELSE "end")
        /\ child <=> (Len(runs) % 2 = 1)

\* check all has its third child running
C16_Witness ==
    /\ cmd = "check_all"
    /\ child
    /\ Len(Starts) = 3

----------------------------------------------------------------------------
(* C17 *)

\* the ordered targets build_runtimes' loop yields on tree f, listed as `listing`
BuildDiscover(f, listing) ==
    SelectSeq(Sorted(listing), LAMBDA n : BuildIsRuntime(f, Join(runtimes_dir, n)))

\* the ordered targets _run_runtimes' loop yields on tree f, listed as `listing`
TestDiscover(f, listing) ==
    SelectSeq(Sorted(listing), LAMBDA n : TestIsRuntime(f, Join(runtimes_dir, n)))

\* C17: on every tree a command can start on, the two copies of the discovery
\* logic yield the same ordered targets, whatever order os.listdir returns
\* the names in; and what
\* a finished, successful build runtimes (test runtimes, test all) visited on
\* an unchanged tree is what the loop of the other copy yields on that tree.
C17_DiscoveryCopiesAgree ==
    /\ (cmd \in RuntimeCmds /\ pc = "call" /\ fs.runtimes = "dir") =>
          LET listings == Orderings(Children(fs))
              one == CHOOSE l \in listings : TRUE
          IN  \A l \in listings :
                  /\ BuildDiscover(fs, l) = TestDiscover(fs, l)
                  /\ BuildDiscover(fs, l) = TestDiscover(fs, one)
    /\ (cmd \in RuntimeCmds /\ pc = "done" /\ exit = "zero" /\ fsStable) =>
          \A l \in Orderings(Children(fs)) :
              Visited = (IF cmd = "build_runtimes" THEN TestDiscover(fs, l)
                                                   ELSE BuildDiscover(fs, l))

\* test runtimes ended with status 0 on a tree where the manifest test matters
C17_Witness ==
    /\ cmd = "test_runtimes"
    /\ pc = "done"
    /\ exit = "zero"
    /\ fsStable
    /\ Len(Visited) = 2
    /\ \E n \in Names : fs.kind[n] = "dir"

----------------------------------------------------------------------------
(* C18 *)

\* the one argument vector check fmt / check clippy / check workspace start
\* with the flag as it is
StandaloneArgv(c) ==
    CASE c = "check_fmt"       -> FmtArgv(ApplyFix("check_fmt", check_only))
      [] c = "check_clippy"    -> ClippyArgv(ApplyFix("check_clippy", check_only))
      [] c = "check_workspace" -> CargoCheckArgv

\* C18: check fmt, check clippy and check workspace each start exactly one
\* child; check all starts, in order and in the task's own directory, the
\* children the three would start with the same flag, stopping where one
\* fails, all three if it ends with status 0; and it enters the Flox context
\* once.
C18_CheckAllIsTheThreeInOrder ==
    /\ cmd \in { "check_fmt", "check_clippy", "check_workspace" } =>
          /\ Len(Starts) <= 1
          /\ \A i \in DOMAIN Starts : Starts[i] = Ev("start", StandaloneArgv(cmd), Here, TRUE)
          /\ (pc = "done" /\ exit = "zero") => Len(Starts) = 1
    /\ cmd = "check_all" =>
          /\ IsPrefix(Starts, << Ev("start", StandaloneArgv("check_fmt"), Here, TRUE),
                                 Ev("start", StandaloneArgv("check_clippy"), Here, TRUE),
                                 Ev("start", StandaloneArgv("check_workspace"), Here, TRUE) >>)
          /\ NoStartAfterFailure
          /\ (pc = "done" /\ exit = "zero") => Len(Starts) = 3
          /\ (pc = "done" /\ ~ SomeFailed) => exit = "zero"
          /\ Count("acquire") <= 1
          /\ Starts # << >> => Count("acquire") = 1

\* check all (apply mode): the linter failed after the formatter succeeded
C18_Witness ==
    /\ cmd = "check_all"
    /\ ~ check_only
    /\ pc = "done"
    /\ SomeFailed
    /\ Len(Starts) = 2

----------------------------------------------------------------------------
(* C19 *)

\* C19: build runtimes / test runtimes on a runtimes directory with no
\* directory holding Cargo.toml (the tree unchanged during the command)
\* start no child, print no marker and end with status 0.
C19_NoTargetsIsSuccess ==
    (cmd \in LoopCmds /\ fsStable /\ fs.runtimes = "dir" /\ \A n \in Names : ~ IsCrate(n)) =>
        /\ Starts = << >>
        /\ Count("print") = 0
        /\ exc = "none"
        /\ pc = "done" => exit = "zero"

\* build runtimes ended on a runtimes/ holding only a file and a bare directory
C19_Witness ==
    /\ cmd = "build_runtimes"
    /\ pc = "done"
    /\ exit = "zero"
    /\ fsStable
    /\ fs.runtimes = "dir"
    /\ \E n \in Names : fs.kind[n] = "file"
    /\ \E n \in Names : fs.kind[n] = "dir"
    /\ \A n \in Names : ~ IsCrate(n)
    /\ Len(entries) >= 2

====
